---- MODULE Spec2Model ----
(***************************************************************************)
(* Model of dvcCLI.py: the version registry (model_registry.json), the     *)
(* per-artifact pointer descriptors (<name>.dvc) and the two commands that *)
(* touch them, add_and_push (publish) and switch_version (switch).         *)
(*                                                                         *)
(* Strings the code inspects character by character (version strings) are  *)
(* sequences of one-character strings; strings it treats as opaque values  *)
(* (artifact names, descriptions, checksums, YAML keys) are TLA+ strings.   *)
(***************************************************************************)
EXTENDS Integers, Sequences, FiniteSets, TLC

\* ---------------------------------------------------------------- bounds
\* Total number of entries the registry may hold (publish is disabled beyond).
MaxEntries == 2
\* Longest string handed to the version check in SpecValidate.
MaxLen == 7

\* ---------------------------------------------------------------- inputs
\* The names of paths and descriptors, and the artifact names that Spec
\* publishes under (a path may differ from the name it is published under).
Names == {"m1", "m2"}
PublishNames == {"m1"}
Descriptions == {"", "fix"}
Checksums == {"h1", "h2"}

\* Python's None, as json.dump/yaml.dump write it (null) and read it back.
None == "<None>"

V2 == <<"v", "2", ".", "0", ".", "0">>
V10 == <<"v", "1", "0", ".", "0", ".", "0">>
V2nl == <<"v", "2", ".", "0", ".", "0", "\n">>
V2short == <<"v", "2", ".", "0">>
Versions == {V2, V10, V2nl, V2short}

Alphabet == {"v", "0", "9", ".", "x", " ", "\n"}
Digits == {"0", "1", "2", "3", "4", "5", "6", "7", "8", "9"}

VARIABLES regFile, desc, last, vstr, vok, procs

vars == <<regFile, desc, last, vstr, vok, procs>>

\* ------------------------------------------------------ string operations
\* Code point of a character, for Python's str comparison.
Ord(c) ==
    CASE c = "\n" -> 10
      [] c = " " -> 32
      [] c = "." -> 46
      [] c \in Digits -> 48 + (CHOOSE d \in 0..9 : <<"0", "1", "2", "3", "4", "5", "6", "7", "8", "9">>[d + 1] = c)
      [] c = "v" -> 118
      [] c = "x" -> 120

RECURSIVE StrLessFrom(_, _, _)
StrLessFrom(a, b, i) ==
    IF i > Len(b) THEN FALSE
    ELSE IF i > Len(a) THEN TRUE
    ELSE IF Ord(a[i]) # Ord(b[i]) THEN Ord(a[i]) < Ord(b[i])
    ELSE StrLessFrom(a, b, i + 1)

\* version < latest_version on Python str: lexicographic by code point.
StrLess(a, b) == StrLessFrom(a, b, 1)

\* \d+ from position i: the position after the longest run of digits.
RECURSIVE SkipDigits(_, _)
SkipDigits(s, i) ==
    IF i <= Len(s) /\ s[i] \in Digits THEN SkipDigits(s, i + 1) ELSE i

\* The literal character c at position i.
CharAt(s, i, c) == i <= Len(s) /\ s[i] = c

\* $ without re.MULTILINE: at the end, or just before a newline that ends
\* the string.
AtDollar(s, i) == i = Len(s) + 1 \/ (i = Len(s) /\ s[i] = "\n")

\* re.match(r"^v\d+\.\d+\.\d+$", s)
re_match(s) ==
    LET i1 == SkipDigits(s, 2)
        i2 == SkipDigits(s, i1 + 1)
        i3 == SkipDigits(s, i2 + 1)
    IN  /\ CharAt(s, 1, "v")
        /\ i1 > 2
        /\ CharAt(s, i1, ".")
        /\ i2 > i1 + 1
        /\ CharAt(s, i2, ".")
        /\ i3 > i2 + 1
        /\ AtDollar(s, i3)

\* ------------------------------------------------- YAML mappings (dicts)
\* A mapping is a sequence of <<key, value>> pairs, in the order of the file.
HasKey(m, k) == \E i \in 1..Len(m) : m[i][1] = k

GetKey(m, k) == m[CHOOSE i \in 1..Len(m) : m[i][1] = k][2]

\* d[k] = v: the value of an existing key is replaced in place, a new key is
\* added at the end.
SetKey(m, k, v) ==
    IF HasKey(m, k)
    THEN [i \in 1..Len(m) |-> IF m[i][1] = k THEN <<k, v>> ELSE m[i]]
    ELSE Append(m, <<k, v>>)

\* The keys a descriptor may hold, in sorted order.
KeyOrder == <<"hash", "md5", "path", "size", "wdir">>

\* yaml.dump writes the keys of a mapping sorted (sort_keys defaults to True).
SortKeys(m) ==
    LET present == SelectSeq(KeyOrder, LAMBDA k : HasKey(m, k))
    IN  [i \in 1..Len(present) |-> <<present[i], GetKey(m, present[i])>>]

\* ------------------------------------------------------ pointer descriptors
\* The file <name>.dvc: missing, unparsable, or a YAML document with scalar
\* top-level fields and the list outs of output mappings.
MissingFile == [kind |-> "missing", top |-> <<>>, outs |-> <<>>]

MalformedFile == [kind |-> "malformed", top |-> <<>>, outs |-> <<>>]

Doc(top, outs) == [kind |-> "doc", top |-> top, outs |-> outs]

\* What "dvc add <path>" writes to <path>.dvc for content with checksum h:
\* one output, its fields in the order dvc writes them.
TrackDoc(path, h) ==
    Doc(<<>>, << <<<<"md5", h>>, <<"size", "7">>, <<"hash", "md5">>, <<"path", path>>>> >>)

\* Descriptors found on disk before the first command: written by an earlier
\* dvc version, by hand, or checked out from history. RichDoc is what an
\* earlier dvc wrote for content with checksum h1, with fields of its own.
NoMd5Doc(n) == Doc(<<>>, << <<<<"path", n>>>> >>)

NullMd5Doc(n) == Doc(<<>>, << <<<<"path", n>>, <<"md5", None>>>> >>)

RichDoc(n) ==
    Doc(<<<<"wdir", ".">>, <<"md5", "t0">>>>,
        << <<<<"path", n>>, <<"md5", "h1">>, <<"size", "7">>>>,
           <<<<"md5", "h9">>, <<"path", "aux">>>> >>)

DescInits(n) == {MissingFile, MalformedFile, NoMd5Doc(n), NullMd5Doc(n), RichDoc(n)}

\* yaml.safe_load succeeds, and outs[0] exists.
HasFirstOut(f) == f.kind = "doc" /\ Len(f.outs) >= 1

\* get_md5_from_dvc: dvc_content['outs'][0]['md5'], or the exception that
\* open, yaml.safe_load or the subscripts raise.
get_md5_from_dvc(f) ==
    IF HasFirstOut(f) /\ HasKey(f.outs[1], "md5")
    THEN [ok |-> TRUE, md5 |-> GetKey(f.outs[1], "md5")]
    ELSE [ok |-> FALSE, md5 |-> None]

\* Mutant of set_md5: the checksum is written to the top level of the document.
set_md5_top(f, md5) == [f EXCEPT !.top = SetKey(@, "md5", md5)]

\* Mutant of set_md5: the first output is replaced by one that holds the
\* checksum alone.
set_md5_replace(f, md5) == [f EXCEPT !.outs[1] = <<<<"md5", md5>>>>]

\* dvc_content['outs'][0]['md5'] = md5
set_md5(f, md5) == [f EXCEPT !.outs[1] = SetKey(@, "md5", md5)]

\* yaml.dump(dvc_content, f)
yaml_dump(f) ==
    Doc(SortKeys(f.top), [i \in 1..Len(f.outs) |-> SortKeys(f.outs[i])])

\* ------------------------------------------------------------ the registry
\* The registry is a dict from names to lists of entries; the file holds it
\* whole (json.dump and json.load are inverse on this data: str, None, list
\* and dict with str keys).
EmptyDict == [n \in {} |-> <<>>]

NoRegistryFile == [exists |-> FALSE, data |-> EmptyDict]

\* Mutant of load_registry: without a registry file the registry loaded is
\* not empty, it holds a name with an empty history.
load_registry_seeded(file) ==
    IF file.exists THEN file.data ELSE [n \in {"default"} |-> <<>>]

\* load_registry: json.load of the file, {} when there is no file.
load_registry(file) == IF file.exists THEN file.data ELSE EmptyDict

\* Mutant of save_registry: the file is read again when it is written and
\* the entries it holds that the registry in memory lacks are kept.
save_registry_merge(registry) ==
    LET onDisk == load_registry(regFile)
        Kept(n) ==
            IF n \in DOMAIN onDisk
            THEN [i \in 1..Len(onDisk[n]) |-> onDisk[n][i]]
            ELSE <<>>
        Mine(n) == IF n \in DOMAIN registry THEN registry[n] ELSE <<>>
        New(n) ==
            LET Fresh(e) == \A i \in 1..Len(Kept(n)) : Kept(n)[i] # e
            IN  SelectSeq(Mine(n), Fresh)
    IN  [exists |-> TRUE,
         data |-> [n \in DOMAIN onDisk \cup DOMAIN registry |-> Kept(n) \o New(n)]]

\* save_registry: json.dump of the whole registry over the file.
save_registry(registry) == [exists |-> TRUE, data |-> registry]

Entry(md5, description, version) ==
    [md5 |-> md5, description |-> description, version |-> version]

\* Mutant of append_entry: the entry is put at the front of the history.
append_entry_front(registry, model, entry) ==
    [n \in DOMAIN registry \cup {model} |->
        IF n = model
        THEN <<entry>> \o (IF n \in DOMAIN registry THEN registry[n] ELSE <<>>)
        ELSE registry[n]]

\* Mutant of append_entry: an entry whose version the history already holds
\* takes the place of the earlier entry of that version.
append_entry_dedup(registry, model, entry) ==
    IF model \in DOMAIN registry
    THEN IF \E i \in 1..Len(registry[model]) : registry[model][i].version = entry.version
         THEN [registry EXCEPT ![model] =
                 [i \in 1..Len(@) |-> IF @[i].version = entry.version THEN entry ELSE @[i]]]
         ELSE [registry EXCEPT ![model] = Append(@, entry)]
    ELSE [n \in DOMAIN registry \cup {model} |->
            IF n = model THEN <<entry>> ELSE registry[n]]

\* registry.setdefault(model, []).append(entry)
append_entry(registry, model, entry) ==
    IF model \in DOMAIN registry
    THEN [registry EXCEPT ![model] = Append(@, entry)]
    ELSE [n \in DOMAIN registry \cup {model} |->
            IF n = model THEN <<entry>> ELSE registry[n]]

\* Mutant of latest_version: the version of the first entry of the history.
latest_version_first(registry, model) == registry[model][1].version

\* registry[model][-1]["version"]
latest_version(registry, model) == registry[model][Len(registry[model])].version

\* Mutant of find_version: the last match is returned.
find_version_last(versions, version) ==
    IF \E i \in 1..Len(versions) : versions[i].version = version
    THEN CHOOSE i \in 1..Len(versions) :
            /\ versions[i].version = version
            /\ \A j \in (i + 1)..Len(versions) : versions[j].version # version
    ELSE 0

\* next((entry for entry in versions if entry["version"] == version), None):
\* the index of the first match, 0 for None.
find_version(versions, version) ==
    IF \E i \in 1..Len(versions) : versions[i].version = version
    THEN CHOOSE i \in 1..Len(versions) :
            /\ versions[i].version = version
            /\ \A j \in 1..(i - 1) : versions[j].version # version
    ELSE 0

RECURSIVE SumLen(_, _)
SumLen(registry, S) ==
    IF S = {} THEN 0
    ELSE LET n == CHOOSE x \in S : TRUE
         IN  Len(registry[n]) + SumLen(registry, S \ {n})

TotalEntries(registry) == SumLen(registry, DOMAIN registry)

\* ----------------------------------------------------------- the commands
\* Mutant of RunUntil: the steps that follow the failed one run all the same.
RunUntil_continue(steps, failAt) == steps

\* run_command: the steps of a list that run when the step failAt fails (it
\* runs, returns a non-zero status, and sys.exit ends the command).
RunUntil(steps, failAt) ==
    IF \E i \in 1..Len(steps) : steps[i] = failAt
    THEN SubSeq(steps, 1, CHOOSE i \in 1..Len(steps) : steps[i] = failAt)
    ELSE steps

InSeq(x, s) == \E i \in 1..Len(s) : s[i] = x

NoEntry == Entry(None, "", <<>>)

\* What the last command was given and how it ended: the steps with a side
\* effect that it ran, in order, the step or check that ended it ("none" when
\* it ran to its end), and the entry it appended.
Outcome(cmd, path, name, version, gate, failed, calls, entry) ==
    [cmd |-> cmd, path |-> path, name |-> name, version |-> version,
     gate |-> gate, failed |-> failed, calls |-> calls, entry |-> entry]

Idle == Outcome("none", "", "", <<>>, "none", "none", <<>>, NoEntry)

\* if model in registry: ... if version < latest_version
is_regression(registry, model, version) ==
    model \in DOMAIN registry /\ StrLess(version, latest_version(registry, model))

\* Mutant of cancelled: the answer to the prompt is ignored.
cancelled_never(regression, proceed) == FALSE

\* if proceed.lower() != 'y': sys.exit(...)
cancelled(regression, proceed) == regression /\ ~proceed

\* Mutant of publish_steps: the registry is saved after the commit.
publish_steps_late_save == <<"stage", "commit", "save", "dvcpush", "gitpush">>

\* The steps of add_and_push after the checksum was read, in program order.
publish_steps == <<"save", "stage", "commit", "dvcpush", "gitpush">>

PublishFails == {"none", "stage", "commit", "dvcpush", "gitpush"}

\* add_and_push(path, version, model, description) with description in D and
\* the content at path hashing to a checksum in H. The prompt is answered
\* (proceed) only when it is shown; each delegated command succeeds or fails.
add_and_push(path, version, model, D, H) ==
    LET registry == load_registry(regFile)
        valid == re_match(version)
        regression == valid /\ is_regression(registry, model, version)
        Done(gate, failed, c, e) ==
            Outcome("publish", path, model, version, gate, failed, c, e)
    IN  /\ last = Idle
        /\ UNCHANGED <<vstr, vok, procs>>
        /\ IF ~valid
           THEN /\ UNCHANGED <<regFile, desc>>
                /\ last' = Done("none", "validate", <<>>, NoEntry)
           ELSE \E proceed \in IF regression THEN BOOLEAN ELSE {TRUE} :
                LET gate == IF ~regression THEN "none"
                            ELSE IF proceed THEN "accepted" ELSE "declined"
                IN  IF cancelled(regression, proceed)
                    THEN /\ UNCHANGED <<regFile, desc>>
                         /\ last' = Done(gate, "gate", <<>>, NoEntry)
                    ELSE \E trackOk \in BOOLEAN :
                         IF ~trackOk
                         THEN /\ UNCHANGED <<regFile, desc>>
                              /\ last' = Done(gate, "track", <<"track">>, NoEntry)
                         ELSE \E h \in H :
                              LET tracked == [desc EXCEPT ![path] = TrackDoc(path, h)]
                                  r == get_md5_from_dvc(tracked[model])
                              IN  IF ~r.ok
                                  THEN /\ UNCHANGED regFile
                                       /\ desc' = tracked
                                       /\ last' = Done(gate, "checksum", <<"track">>, NoEntry)
                                  ELSE \E description \in D, failAt \in PublishFails :
                                       LET entry == Entry(r.md5, description, version)
                                           calls == <<"track">> \o RunUntil(publish_steps, failAt)
                                       IN  /\ TotalEntries(registry) < MaxEntries
                                           /\ desc' = tracked
                                           /\ regFile' =
                                                IF InSeq("save", calls)
                                                THEN save_registry(append_entry(registry, model, entry))
                                                ELSE regFile
                                           /\ last' = Done(gate, failAt, calls, entry)

\* Mutant of switch_failure: the descriptor is not checked to exist, and is
\* created when it does not.
switch_failure_creates(registry, name, version, file) ==
    IF name \notin DOMAIN registry THEN "no_entries"
    ELSE IF find_version(registry[name], version) = 0 THEN "no_version"
    ELSE IF file.kind = "malformed" THEN "yaml_error"
    ELSE IF file.kind = "doc" /\ ~HasFirstOut(file) THEN "index_error"
    ELSE "none"

\* Why switch_version ends before it writes: the sys.exit it takes or the
\* exception that open, yaml.safe_load or the subscripts raise.
switch_failure(registry, name, version, file) ==
    IF name \notin DOMAIN registry THEN "no_entries"
    ELSE IF find_version(registry[name], version) = 0 THEN "no_version"
    ELSE IF file.kind = "missing" THEN "no_descriptor"
    ELSE IF file.kind # "doc" THEN "yaml_error"
    ELSE IF ~HasFirstOut(file) THEN "index_error"
    ELSE "none"

\* Mutant of switch_steps: the fetch is requested before the descriptor is
\* rewritten.
switch_steps_pull_first(pull) == IF pull THEN <<"pull", "write">> ELSE <<"write">>

\* The steps of switch_version once the target is resolved, in program order.
switch_steps(pull) == IF pull THEN <<"write", "pull">> ELSE <<"write">>

\* switch_version(name, version, pull); the fetch, when asked for, succeeds
\* or fails.
switch_version(name, version, pull) ==
    LET registry == load_registry(regFile)
        failure == switch_failure(registry, name, version, desc[name])
        target_entry == registry[name][find_version(registry[name], version)]
        Done(failed, c) ==
            Outcome("switch", name, name, version, "none", failed, c, NoEntry)
    IN  /\ last = Idle
        /\ UNCHANGED <<vstr, vok, regFile, procs>>
        /\ IF failure # "none"
           THEN /\ UNCHANGED desc
                /\ last' = Done(failure, <<>>)
           ELSE \E failAt \in IF pull THEN {"none", "pull"} ELSE {"none"} :
                LET calls == RunUntil(switch_steps(pull), failAt)
                IN  /\ desc' = IF InSeq("write", calls)
                                THEN [desc EXCEPT ![name] = yaml_dump(set_md5(@, target_entry.md5))]
                                ELSE desc
                    /\ last' = Done(failAt, calls)

\* The status a command ends with: sys.exit(1), taken by run_command when a
\* delegated command returns non-zero and by the checks of the handlers, and
\* an uncaught exception end the process with status 1; a handler that
\* returns ends it with 0.
exit_status(outcome) == IF outcome.failed = "none" THEN 0 ELSE 1

\* The command has ended and the shell prompts for the next one.
next_command ==
    /\ last # Idle
    /\ last' = Idle
    /\ UNCHANGED <<regFile, desc, vstr, vok, procs>>

\* The descriptor of n is deleted outside the commands (the operator removes
\* it, or checks out a revision without it): switch_version tests for it.
remove_descriptor(n) ==
    /\ last = Idle
    /\ desc[n].kind # "missing"
    /\ desc' = [desc EXCEPT ![n] = MissingFile]
    /\ UNCHANGED <<regFile, last, vstr, vok, procs>>

\* The version check on the string typed so far, one more character typed.
check_version(c) ==
    /\ Len(vstr) < MaxLen
    /\ vstr' = Append(vstr, c)
    /\ vok' = re_match(vstr')
    /\ UNCHANGED <<regFile, desc, last, procs>>

\* ------------------------------------------- publish, one step at a time
\* Two add-data/add-model processes started by two shells in the same
\* working directory. Each keeps its arguments, its position (pc) and the
\* registry it loaded in its own memory; the registry file and the
\* descriptors are the files both see.
Procs == {"p1", "p2"}

Proc(pc, failed, registry, path, model, version, description, entry) ==
    [pc |-> pc, failed |-> failed, registry |-> registry, path |-> path,
     model |-> model, version |-> version, description |-> description,
     entry |-> entry]

NotStarted == Proc("start", "none", EmptyDict, "", "", <<>>, "", NoEntry)

NoProcs == [p \in Procs |-> NotStarted]

\* The position after a step of publish_steps that returned zero.
step_after(step) ==
    LET i == CHOOSE k \in 1..Len(publish_steps) : publish_steps[k] = step
    IN  IF i < Len(publish_steps) THEN publish_steps[i + 1] ELSE "done"

\* Lines 34-47: the version check, the load of the registry file and the
\* regression prompt.
p_begin(p, path, version, model, description) ==
    LET registry == load_registry(regFile)
        valid == re_match(version)
        regression == valid /\ is_regression(registry, model, version)
        At(pc, failed, r) ==
            Proc(pc, failed, r, path, model, version, description, NoEntry)
    IN  /\ procs[p].pc = "start"
        /\ UNCHANGED <<regFile, desc, last, vstr, vok>>
        /\ IF ~valid
           THEN procs' = [procs EXCEPT ![p] = At("error", "validate", EmptyDict)]
           ELSE \E proceed \in IF regression THEN BOOLEAN ELSE {TRUE} :
                IF cancelled(regression, proceed)
                THEN procs' = [procs EXCEPT ![p] = At("error", "gate", registry)]
                ELSE procs' = [procs EXCEPT ![p] = At("track", "none", registry)]

\* Line 50: dvc add {path}, which writes {path}.dvc or fails.
p_track(p, H) ==
    /\ procs[p].pc = "track"
    /\ UNCHANGED <<regFile, last, vstr, vok>>
    /\ \E trackOk \in BOOLEAN :
          IF ~trackOk
          THEN /\ UNCHANGED desc
               /\ procs' = [procs EXCEPT ![p].pc = "error", ![p].failed = "track"]
          ELSE \E h \in H :
               /\ desc' = [desc EXCEPT ![procs[p].path] = TrackDoc(procs[p].path, h)]
               /\ procs' = [procs EXCEPT ![p].pc = "read"]

\* Lines 52-59: the checksum is read from {model}.dvc and the entry appended
\* to the registry in memory.
p_read(p) ==
    LET r == get_md5_from_dvc(desc[procs[p].model])
        entry == Entry(r.md5, procs[p].description, procs[p].version)
    IN  /\ procs[p].pc = "read"
        /\ UNCHANGED <<regFile, desc, last, vstr, vok>>
        /\ IF ~r.ok
           THEN procs' = [procs EXCEPT ![p].pc = "error", ![p].failed = "checksum"]
           ELSE procs' = [procs EXCEPT
                            ![p].pc = publish_steps[1],
                            ![p].entry = entry,
                            ![p].registry = append_entry(@, procs[p].model, entry)]

\* Line 60: the registry in memory is written over the file.
p_save(p) ==
    /\ procs[p].pc = "save"
    /\ UNCHANGED <<desc, last, vstr, vok>>
    /\ regFile' = save_registry(procs[p].registry)
    /\ procs' = [procs EXCEPT ![p].pc = step_after("save")]

\* Lines 63-66: git add, git commit, dvc push and git push, each through
\* run_command.
p_run(p) ==
    /\ procs[p].pc \in {"stage", "commit", "dvcpush", "gitpush"}
    /\ UNCHANGED <<regFile, desc, last, vstr, vok>>
    /\ \E ok \in BOOLEAN :
          IF ok
          THEN procs' = [procs EXCEPT ![p].pc = step_after(@)]
          ELSE procs' = [procs EXCEPT ![p].pc = "error", ![p].failed = procs[p].pc]

\* ------------------------------------------------------- specifications
Init ==
    /\ regFile = NoRegistryFile
    /\ desc \in {d \in [Names -> UNION {DescInits(n) : n \in Names}] :
                    \A n \in Names : d[n] \in DescInits(n)}
    /\ last = Idle
    /\ vstr = <<>>
    /\ vok = FALSE
    /\ procs = NoProcs

\* Spec publishes under the names of PublishNames, from either path, with
\* one description (the code stores the description and never reads it).
Publish ==
    \E path \in Names, version \in Versions, model \in PublishNames :
        add_and_push(path, version, model, {"fix"}, Checksums)

Switch ==
    \E name \in Names, version \in Versions, pull \in BOOLEAN :
        switch_version(name, version, pull)

Remove == \E n \in Names : remove_descriptor(n)

Next == Publish \/ Switch \/ Remove \/ next_command

Spec == Init /\ [][Next]_vars

InitValidate ==
    /\ regFile = NoRegistryFile
    /\ desc = [n \in Names |-> MissingFile]
    /\ last = Idle
    /\ vstr = <<>>
    /\ vok = re_match(<<>>)
    /\ procs = NoProcs

NextValidate == \E c \in Alphabet : check_version(c)

SpecValidate == InitValidate /\ [][NextValidate]_vars

\* SpecRegistry starts in a fresh working directory (no registry file, no
\* descriptor) and runs publish and switch commands one at a time, under
\* either name and with either description.
InitRegistry ==
    /\ regFile = NoRegistryFile
    /\ desc = [n \in Names |-> MissingFile]
    /\ last = Idle
    /\ vstr = <<>>
    /\ vok = FALSE
    /\ procs = NoProcs

RegistryVersions == {V2, V10}

PublishAny ==
    \E path \in Names, version \in RegistryVersions, model \in Names :
        add_and_push(path, version, model, Descriptions, Checksums)

SwitchAny ==
    \E name \in Names, version \in RegistryVersions, pull \in BOOLEAN :
        switch_version(name, version, pull)

NextRegistry == PublishAny \/ SwitchAny \/ next_command

SpecRegistry == InitRegistry /\ [][NextRegistry]_vars

\* SpecConcurrent starts in a fresh working directory and runs two publish
\* processes, their steps interleaved in any order.
Begin(p) ==
    \E path \in Names, version \in RegistryVersions \cup {V2short}, model \in Names :
        p_begin(p, path, version, model, "fix")

NextConcurrent ==
    \E p \in Procs :
        \/ Begin(p)
        \/ p_track(p, Checksums)
        \/ p_read(p)
        \/ p_save(p)
        \/ p_run(p)

SpecConcurrent == InitRegistry /\ [][NextConcurrent]_vars

\* ----------------------------------------------------------------- claims
\* The whole string is "v" and three non-empty runs of decimal digits with
\* single dots between them.
IsSemver(s) ==
    \E i, j \in 1..Len(s) :
        /\ 2 < i /\ i + 1 < j /\ j < Len(s)
        /\ s[1] = "v" /\ s[i] = "." /\ s[j] = "."
        /\ \A k \in (2..Len(s)) \ {i, j} : s[k] \in Digits

Published == last.cmd = "publish"

Saved == Published /\ InSeq("save", last.calls)

History(n) == IF n \in DOMAIN regFile.data THEN regFile.data[n] ELSE <<>>

\* C1: a publish whose version is not v<digits>.<digits>.<digits> ends in an
\* error with the registry and every descriptor unchanged and no
\* content-tracking, commit or push step run.
C1_InvalidVersionRejected ==
    [][(last'.cmd = "publish" /\ ~IsSemver(last'.version))
        => /\ last'.failed # "none"
           /\ last'.calls = <<>>
           /\ regFile' = regFile
           /\ desc' = desc]_vars

\* C2: the version check accepts a string if and only if the whole string is
\* "v" and three non-empty digit runs separated by single dots.
C2_VersionCheckExact == vok = IsSemver(vstr)

ProvenanceSteps == {"stage", "commit", "dvcpush", "gitpush"}

\* C3: a publish whose version sorts lower than the latest recorded version
\* of the name, with the confirmation declined, ends in an error with the
\* registry and every descriptor unchanged and no track, commit or push run.
C3_DeclinedRegressionNoMutation ==
    [][(/\ last'.cmd = "publish"
        /\ last'.gate = "declined"
        /\ History(last'.name) # <<>>
        /\ StrLess(last'.version, History(last'.name)[Len(History(last'.name))].version))
        => /\ last'.failed # "none"
           /\ last'.calls = <<>>
           /\ regFile' = regFile
           /\ desc' = desc]_vars

C3_Witness ==
    /\ Published
    /\ last.gate = "declined"
    /\ last.failed = "gate"
    /\ IsSemver(last.version)
    /\ History(last.name) # <<>>
    /\ StrLess(last.version, History(last.name)[Len(History(last.name))].version)

\* C4: whenever publish saves the registry, the checksum of the entry it
\* appended is the checksum the content-tracking step of that call wrote
\* into the descriptor of the published path.
C4_EntryChecksumIsTracked ==
    Saved => /\ History(last.name) # <<>>
             /\ History(last.name)[Len(History(last.name))].md5
                    = GetKey(desc[last.path].outs[1], "md5")

\* The descriptor is missing, unparsable or holds no checksum value.
NoChecksumValue(f) ==
    \/ ~HasFirstOut(f)
    \/ ~HasKey(f.outs[1], "md5")
    \/ GetKey(f.outs[1], "md5") \in {None, ""}

\* C5: a publish that finds, right after the content-tracking step, the
\* descriptor of the name missing, unparsable or without a checksum value
\* ends in an error with the registry unchanged and no commit or push run.
C5_NoChecksumNoEntry ==
    [][(/\ last'.cmd = "publish"
        /\ InSeq("track", last'.calls)
        /\ last'.failed # "track"
        /\ NoChecksumValue(desc'[last'.name]))
        => /\ last'.failed # "none"
           /\ last'.calls = <<"track">>
           /\ regFile' = regFile]_vars

\* C6: in every publish the stage, commit and push steps run only after the
\* registry was saved with the new entry, and when one of them fails the
\* saved registry still ends with the new entry.
C6_ProvenanceAfterSave ==
    Published =>
        /\ \A i \in 1..Len(last.calls) :
              last.calls[i] \in ProvenanceSteps
                  => \E j \in 1..(i - 1) : last.calls[j] = "save"
        /\ (\E i \in 1..Len(last.calls) : last.calls[i] \in ProvenanceSteps)
              => /\ regFile.exists
                 /\ History(last.name) # <<>>
                 /\ History(last.name)[Len(History(last.name))].version = last.version
                 /\ History(last.name)[Len(History(last.name))].md5
                        = GetKey(desc[last.name].outs[1], "md5")

C6_Witness ==
    /\ Published
    /\ last.failed = "commit"
    /\ last.calls = <<"track", "save", "stage", "commit">>
    /\ History(last.name)[Len(History(last.name))].version = last.version

Switched == last.cmd = "switch" /\ last.failed = "none"

\* The first output's checksum field of a descriptor.
DescMd5(f) == GetKey(f.outs[1], "md5")

\* C7 as stated: after publish appends entry e with version v to the history
\* of name, the lookup of (name, v) that switch makes resolves to e, also
\* when the history already held an entry with version v.
C7_LookupReturnsAppended ==
    Saved =>
        LET h == History(last.name)
            i == find_version(h, last.version)
        IN  i \in 1..Len(h) /\ h[i] = last.entry

\* C7 as amended: the lookup resolves to the first entry, in append order,
\* whose version is v; that is e when no earlier entry of the history has
\* version v, and the earliest such entry otherwise.
C7_LookupReturnsFirstMatch ==
    Saved =>
        LET h == History(last.name)
            i == find_version(h, last.version)
        IN  /\ i \in 1..Len(h)
            /\ h[i].version = last.version
            /\ \A j \in 1..(i - 1) : h[j].version # last.version
            /\ h[Len(h)] = last.entry
            /\ (\A j \in 1..(Len(h) - 1) : h[j].version # last.version) => i = Len(h)

C7_Witness ==
    /\ Saved
    /\ \E j \in 1..(Len(History(last.name)) - 1) :
          /\ History(last.name)[j].version = last.version
          /\ History(last.name)[j] # last.entry

\* C8: after a successful switch(name, v) the checksum field of the
\* descriptor of name is the checksum of the first entry, in append order,
\* of the history of name whose version is v.
C8_SwitchWritesFirstMatch ==
    Switched =>
        LET h == History(last.name)
        IN  \E i \in 1..Len(h) :
              /\ h[i].version = last.version
              /\ \A j \in 1..(i - 1) : h[j].version # last.version
              /\ HasFirstOut(desc[last.name])
              /\ HasKey(desc[last.name].outs[1], "md5")
              /\ DescMd5(desc[last.name]) = h[i].md5

C8_Witness ==
    /\ Switched
    /\ \E i, j \in 1..Len(History(last.name)) :
          /\ i < j
          /\ History(last.name)[i].version = last.version
          /\ History(last.name)[j].version = last.version
          /\ History(last.name)[i].md5 # History(last.name)[j].md5

\* C9: a switch whose name has no history, whose history has no entry with
\* the requested version, or whose descriptor does not exist ends in an
\* error with the registry and every descriptor unchanged, no descriptor
\* created and no fetch requested.
C9_UnresolvedSwitchWritesNothing ==
    [][(/\ last'.cmd = "switch"
        /\ \/ History(last'.name) = <<>>
           \/ \A i \in 1..Len(History(last'.name)) :
                 History(last'.name)[i].version # last'.version
           \/ desc[last'.name].kind = "missing")
        => /\ last'.failed # "none"
           /\ last'.calls = <<>>
           /\ regFile' = regFile
           /\ desc' = desc]_vars

C9_Witness ==
    /\ last.cmd = "switch"
    /\ last.failed = "no_descriptor"
    /\ desc[last.name].kind = "missing"
    /\ \E i \in 1..Len(History(last.name)) :
          History(last.name)[i].version = last.version

\* The fields of a mapping with their values, whatever their order.
Fields(m) == {m[i] : i \in 1..Len(m)}

\* C10: a successful switch leaves every field of the descriptor of the name
\* other than the checksum field of its first output with the value it had
\* (the other fields of the first output, the further outputs, the top-level
\* fields), and leaves the descriptors of the other names unchanged.
C10_SwitchChangesOnlyChecksum ==
    [][(last'.cmd = "switch" /\ last'.failed = "none")
        => LET f == desc[last'.name]
               g == desc'[last'.name]
           IN  /\ g.kind = "doc"
               /\ Fields(g.top) = Fields(f.top)
               /\ Len(g.outs) = Len(f.outs)
               /\ \A i \in 2..Len(f.outs) : Fields(g.outs[i]) = Fields(f.outs[i])
               /\ {p \in Fields(g.outs[1]) : p[1] # "md5"}
                    = {p \in Fields(f.outs[1]) : p[1] # "md5"}
               /\ \A n \in Names \ {last'.name} : desc'[n] = desc[n]]_vars

C10_Witness ==
    /\ Switched
    /\ Len(desc[last.name].outs) >= 2
    /\ desc[last.name].top # <<>>
    /\ Len(desc[last.name].outs[1]) >= 3

\* A successful switch that moved a descriptor written by dvc add from the
\* checksum of a later entry back to the checksum of an earlier one.
C10_ChecksumMoved ==
    /\ Switched
    /\ Len(History(last.name)) >= 2
    /\ History(last.name)[1].version = last.version
    /\ History(last.name)[1].md5 = "h1"
    /\ History(last.name)[2].md5 = "h2"
    /\ desc[last.name] = yaml_dump(TrackDoc(last.name, "h1"))

\* The switch requested the fetch after rewriting the descriptor and the
\* fetch (dvc pull) returned non-zero.
FetchFailed ==
    /\ last.cmd = "switch"
    /\ last.failed = "pull"

\* C11: when switch is called with the fetch option and the fetch fails, the
\* descriptor was already rewritten and keeps the checksum of the resolved
\* entry (the first entry of the history with the requested version): the
\* rewrite is not rolled back.
C11_FetchFailureKeepsRewrite ==
    FetchFailed =>
        LET h == History(last.name)
            i == find_version(h, last.version)
        IN  /\ i \in 1..Len(h)
            /\ last.calls = <<"write", "pull">>
            /\ HasFirstOut(desc[last.name])
            /\ HasKey(desc[last.name].outs[1], "md5")
            /\ DescMd5(desc[last.name]) = h[i].md5

C11_Witness ==
    /\ FetchFailed
    /\ last.calls = <<"write", "pull">>
    /\ Len(History(last.name)) >= 2
    /\ History(last.name)[1].version = last.version
    /\ History(last.name)[1].md5 = "h1"
    /\ History(last.name)[2].md5 = "h2"
    /\ desc[last.name] = yaml_dump(TrackDoc(last.name, "h1"))

\* C12: a fetch failure in switch, after the descriptor was rewritten, is a
\* soft failure: the switch command does not end with the error status that
\* every other failure ends with.
C12_FetchFailureIsSoft ==
    FetchFailed => exit_status(last) = 0

IsPrefix(a, b) == Len(a) <= Len(b) /\ SubSeq(b, 1, Len(a)) = a

\* C13: registry histories are append-only: in every step of every sequence
\* of publish and switch commands run one at a time, the persisted history
\* of each name before the step is a prefix of its history after the step,
\* and a name the registry holds is still held after it (prefix being
\* transitive, the same holds between any earlier and any later point).
C13_HistoriesAppendOnly ==
    [][\A n \in Names :
          /\ IsPrefix(History(n), History(n)')
          /\ (regFile.exists /\ n \in DOMAIN regFile.data)
                => (regFile'.exists /\ n \in DOMAIN regFile'.data)]_vars

C13_Witness ==
    /\ Saved
    /\ \E n \in Names \ {last.name} : History(n) # <<>>
    /\ History(last.name)[Len(History(last.name))] = last.entry

\* C14: every entry of the persisted registry has a non-empty description,
\* whatever description arguments the publish commands were given.
C14_DescriptionsNonEmpty ==
    \A n \in Names : \A i \in 1..Len(History(n)) : History(n)[i].description # ""

\* C15: a publish that starts without a registry file, passes the version
\* check, has its content tracked and reads a checksum from the descriptor
\* of the name does not fail on the missing file: it saves a registry that
\* holds exactly that name, whose history is exactly one entry with the
\* given version, the given description and the checksum of the descriptor.
C15_FirstPublishCreatesRegistry ==
    [][(/\ ~regFile.exists
        /\ last'.cmd = "publish"
        /\ InSeq("track", last'.calls)
        /\ last'.failed \notin {"track", "checksum"})
        => /\ InSeq("save", last'.calls)
           /\ regFile'.exists
           /\ DOMAIN regFile'.data = {last'.name}
           /\ Len(regFile'.data[last'.name]) = 1
           /\ regFile'.data[last'.name][1].version = last'.version
           /\ regFile'.data[last'.name][1].description = last'.entry.description
           /\ regFile'.data[last'.name][1].md5 = DescMd5(desc'[last'.name])]_vars

C15_Witness ==
    /\ Saved
    /\ last.failed = "none"
    /\ DOMAIN regFile.data = {last.name}
    /\ regFile.data[last.name] = <<Entry("h2", "fix", V10)>>
    /\ last.version = V10
    /\ desc[last.name] = TrackDoc(last.name, "h2")

\* C16: a publish whose version passed the version check asks for the
\* regression confirmation if and only if the name had a history when the
\* command started and the version is strictly lower, as a string compared
\* character by character, than the version of the last entry of that
\* history; no earlier entry and no maximum is consulted.
C16_GateComparesLastAppended ==
    [][(last'.cmd = "publish" /\ last'.failed # "validate")
        => ((last'.gate # "none")
             <=> /\ History(last'.name) # <<>>
                 /\ StrLess(last'.version,
                            History(last'.name)[Len(History(last'.name))].version))]_vars

C16_Witness ==
    /\ Published
    /\ last.failed # "validate"
    /\ last.gate = "none"
    /\ last.version = V10
    /\ Len(History(last.name)) = 2
    /\ History(last.name)[1].version = V2
    /\ History(last.name)[2].version = V10

\* A publish of a version lower than the last entry's and not lower than the
\* first entry's was asked the confirmation.
C16_AskedAgainstLast ==
    /\ Published
    /\ last.gate # "none"
    /\ last.version = V10
    /\ Len(History(last.name)) = 2
    /\ History(last.name)[1].version = V10
    /\ History(last.name)[2].version = V2

\* The delegated commands of add_and_push, in program order, with the save
\* of the registry where the code makes it.
PublishOrder == <<"track", "save", "stage", "commit", "dvcpush", "gitpush">>

\* C17: a publish in which a delegated step fails ends in an error, the
\* failed step being the last one run: none of the steps that follow it in
\* program order runs, and when content tracking is the step that fails the
\* registry is not saved and no stage, commit or push runs.
C17_FailedStepHalts ==
    [][(/\ last'.cmd = "publish"
        /\ \E k \in 1..Len(PublishOrder) : PublishOrder[k] = last'.failed)
        => /\ exit_status(last') = 1
           /\ \A i, j \in 1..Len(PublishOrder) :
                 (i < j /\ PublishOrder[i] = last'.failed)
                     => ~InSeq(PublishOrder[j], last'.calls)
           /\ \A i \in 1..Len(PublishOrder) :
                 (\E j \in i..Len(PublishOrder) : PublishOrder[j] = last'.failed)
                     => InSeq(PublishOrder[i], last'.calls)
           /\ (last'.failed = "track")
                 => (regFile' = regFile /\ last'.calls = <<"track">>)]_vars

C17_Witness ==
    /\ Published
    /\ last.failed = "dvcpush"
    /\ last.calls = <<"track", "save", "stage", "commit", "dvcpush">>
    /\ exit_status(last) = 1

\* The history of n in a registry file.
HistoryIn(file, n) ==
    IF file.exists /\ n \in DOMAIN file.data THEN file.data[n] ELSE <<>>

\* C19: every publish that reaches the save of the registry lengthens the
\* history of its name by exactly one entry, the new one, at the end, and
\* leaves the history of every other name as it was; also when the history
\* already holds the version, so that the same publish run again (after a
\* failure that followed the save) adds a second entry with that version.
C19_SaveAppendsOne ==
    [][(last'.cmd = "publish" /\ InSeq("save", last'.calls))
        => /\ HistoryIn(regFile', last'.name)
                = Append(HistoryIn(regFile, last'.name), last'.entry)
           /\ last'.entry.version = last'.version
           /\ \A n \in Names \ {last'.name} :
                 HistoryIn(regFile', n) = HistoryIn(regFile, n)
           /\ DOMAIN regFile'.data = DOMAIN load_registry(regFile) \cup {last'.name}]_vars

C19_Witness ==
    /\ Saved
    /\ Len(History(last.name)) = 2
    /\ History(last.name)[1] = last.entry
    /\ History(last.name)[2] = last.entry

\* A publish under one name was saved while the other name had a history.
C19_OtherNameKept ==
    /\ Saved
    /\ Len(History(last.name)) = 1
    /\ \E n \in Names \ {last.name} : Len(History(n)) = 1

\* The process wrote the registry file.
HasSaved(p) ==
    \/ procs[p].pc \in {"stage", "commit", "dvcpush", "gitpush", "done"}
    \/ procs[p].pc = "error" /\ procs[p].failed \in {"stage", "commit", "dvcpush", "gitpush"}

\* C18: two concurrent publish processes each write over the registry file
\* the whole registry they loaded when they began, with their own entry
\* appended: the file is at every moment the registry in memory of one
\* process that saved, whatever the other saved in between. (C18_Witness
\* is the interleaving the claim names: both load, both save, both end
\* without error, and the file lacks the entry of the first to save.)
C18_FileIsOneMemory ==
    /\ regFile.exists <=> \E p \in Procs : HasSaved(p)
    /\ regFile.exists
          => \E p \in Procs : HasSaved(p) /\ regFile.data = procs[p].registry
    /\ \A p \in Procs :
          HasSaved(p)
            => LET h == procs[p].registry[procs[p].model]
               IN  h[Len(h)] = procs[p].entry

C18_Witness ==
    /\ \A p \in Procs : procs[p].pc = "done" /\ procs[p].failed = "none"
    /\ procs["p1"].model = "m1"
    /\ procs["p2"].model = "m2"
    /\ regFile.exists
    /\ DOMAIN regFile.data = {"m2"}
    /\ regFile.data["m2"] = <<procs["p2"].entry>>
    /\ procs["p1"].registry["m1"] = <<procs["p1"].entry>>

====
